---- MODULE Spec2Model ----
(***************************************************************************)
(* Model of the churn predictor: preprocessing.py (preprocess_input, the   *)
(* feature transformation of one single-row DataFrame) and app.py (the     *)
(* Streamlit script: load_models, the form, the prediction block).         *)
(*                                                                         *)
(* A DataFrame with one row is a record [cols, val]: cols is the sequence  *)
(* of column names in order, val maps each column name to the value of     *)
(* row 0.  Numbers are integers (charges in whole currency units); a       *)
(* quotient a / b is kept exact as the pair <<a, b>>.                       *)
(***************************************************************************)
EXTENDS Integers, Sequences, FiniteSets, TLC

VARIABLES
    files,              \* the artifacts pickle.load can read at startup
    cache,              \* st.cache_resource entry of load_models
    model, scaler, threshold, models_loaded,
    pc,                 \* position of the script run
    error_shown,        \* st.error has been called in this run
    form_built,         \* st.form("churn_form") has been built in this run
    input_df,           \* the single-row record handed to preprocess_input
    processed_df,       \* what preprocess_input returned
    preprocess_calls,   \* calls of preprocess_input in this run
    predict_calls,      \* calls of model.predict_proba in this run
    churn_probability, will_churn, risk_level, risk_class,
    runs                \* script runs so far in this session

vars == <<files, cache, model, scaler, threshold, models_loaded, pc,
          error_shown, form_built, input_df, processed_df, preprocess_calls,
          predict_calls, churn_probability, will_churn, risk_level, risk_class,
          runs>>

-----------------------------------------------------------------------------
(* Bounds *)

\* probabilities and thresholds are the fractions k / ProbScale, k \in 0..ProbScale
ProbScale == 10

\* script runs per session
MaxRuns == 2

-----------------------------------------------------------------------------
(* Values *)

\* what Series.map leaves for a value that is not a key of the mapping
NaN == -1

None == "None"

Range(s) == {s[i] : i \in DOMAIN s}

\* x == k for a column value x (NaN equals nothing)
Eq(x, k) == x # NaN /\ x = k

\* x <= k, x > k for a column value x (every comparison with NaN is False)
Leq(x, k) == x # NaN /\ x <= k

Gt(x, k) == x # NaN /\ x > k

\* a + b with NaN propagating
Add(a, b) == IF a = NaN \/ b = NaN THEN NaN ELSE a + b

\* a / b, exact, with NaN propagating
Div(a, b) == IF a = NaN \/ b = NaN THEN <<NaN, 1>> ELSE <<a, b>>

\* int(bool) and Series.astype(int) of a boolean
AsInt(b) == IF b THEN 1 ELSE 0

-----------------------------------------------------------------------------
(* DataFrame operations *)

\* df[col] = v : overwrite in place, or append a new last column
Assign(df, col, v) ==
    IF col \in Range(df.cols)
    THEN [cols |-> df.cols, val |-> [df.val EXCEPT ![col] = v]]
    ELSE [cols |-> Append(df.cols, col),
          val  |-> [c \in DOMAIN df.val \cup {col} |->
                        IF c = col THEN v ELSE df.val[c]]]

\* Series.map(mapping): the mapped value, NaN for a value that is no key
MapValue(mapping, v) == IF v \in DOMAIN mapping THEN mapping[v] ELSE NaN

\* df[col] = df[col].map(mapping), for each of the listed columns
MapAll(df, columns, mapping) ==
    [cols |-> df.cols,
     val  |-> [c \in DOMAIN df.val |->
                 IF c \in Range(columns) THEN MapValue(mapping, df.val[c])
                 ELSE df.val[c]]]

\* df[col] = df[col].replace(old, new), for each of the listed columns
ReplaceAll(df, columns, old, new) ==
    [cols |-> df.cols,
     val  |-> [c \in DOMAIN df.val |->
                 IF c \in Range(columns) /\ df.val[c] = old THEN new
                 ELSE df.val[c]]]

\* df[name] = values[name] for each listed name in turn: an existing column
\* is overwritten in place, a new one is appended
AssignAll(df, names, values) ==
    LET new(c) == c \notin Range(df.cols)
    IN  [cols |-> df.cols \o SelectSeq(names, new),
         val  |-> [c \in DOMAIN df.val \cup Range(names) |->
                     IF c \in Range(names) THEN values[c] ELSE df.val[c]]]

YesNo == [v \in {"Yes", "No"} |-> IF v = "Yes" THEN 1 ELSE 0]

GenderMap == [v \in {"Female", "Male"} |-> IF v = "Male" THEN 1 ELSE 0]

ContractMap == [v \in {"Month-to-month", "One year", "Two year"} |->
                   CASE v = "Month-to-month" -> 0
                     [] v = "One year" -> 1
                     [] v = "Two year" -> 2]

\* the categories of the one-hot columns, in the sorted order pandas gives
\* the levels of a column
SortedCategories(col) ==
    CASE col = "InternetService" -> <<"DSL", "Fiber optic", "No">>
      [] col = "PaymentMethod" ->
            <<"Bank transfer (automatic)", "Credit card (automatic)",
              "Electronic check", "Mailed check">>

\* the distinct values of a column over the rows of the frame (one row)
ColumnValues(df, col) == {df.val[col]}

\* the levels of a column: the sorted distinct values present in it
Levels(df, col) ==
    LET present(c) == c \in ColumnValues(df, col)
    IN  SelectSeq(SortedCategories(col), present)

\* the indicator columns get_dummies makes for one column: one per level,
\* the first level left out under drop_first
DummyLevels(df, col, drop_first) ==
    IF drop_first THEN Tail(Levels(df, col)) ELSE Levels(df, col)

DummyName(col, level) == col \o "_" \o level

RECURSIVE AddDummies(_, _, _, _)
AddDummies(df, col, v, levels) ==
    IF levels = <<>> THEN df
    ELSE AddDummies(Assign(df, DummyName(col, Head(levels)),
                           AsInt(v = Head(levels))),
                    col, v, Tail(levels))

\* DataFrame.drop(columns=[col])
DropColumn(df, col) ==
    LET keep(c) == c # col
    IN  [cols |-> SelectSeq(df.cols, keep),
         val  |-> [c \in DOMAIN df.val \ {col} |-> df.val[c]]]

\* pd.get_dummies(df, columns=columns, drop_first=drop_first, dtype=int):
\* every encoded column is removed and its indicator columns are appended
RECURSIVE GetDummies(_, _, _, _)
GetDummies(df, src, columns, drop_first) ==
    IF columns = <<>> THEN df
    ELSE LET col == Head(columns)
         IN  GetDummies(AddDummies(DropColumn(df, col), col, src.val[col],
                                   DummyLevels(src, col, drop_first)),
                        src, Tail(columns), drop_first)

-----------------------------------------------------------------------------
(* preprocess_input, section by section *)

InternetAddOns == <<"OnlineSecurity", "OnlineBackup", "DeviceProtection",
                    "TechSupport", "StreamingTV", "StreamingMovies">>

\* 1. binary encoding
BinaryEncoding(df) ==
    MapAll(MapAll(df, <<"gender">>, GenderMap),
           <<"Partner", "Dependents", "PhoneService", "PaperlessBilling">>,
           YesNo)

\* NoServiceCategories with the columns encoded before the "no service"
\* categories are rewritten: the rewrite then finds no sentinel left
NoServiceCategories_EncodeFirst(df) ==
    MapAll(df, <<"MultipleLines">> \o InternetAddOns, YesNo)

\* 2. the "no service" categories become "No", then the columns are encoded
NoServiceCategories(df) ==
    MapAll(ReplaceAll(ReplaceAll(df, <<"MultipleLines">>,
                                 "No phone service", "No"),
                      InternetAddOns, "No internet service", "No"),
           <<"MultipleLines">> \o InternetAddOns, YesNo)

\* 3. ordinal encoding of Contract
OrdinalEncoding(df) == MapAll(df, <<"Contract">>, ContractMap)

\* 4. one-hot encoding
OneHotEncoding(df) ==
    GetDummies(df, df, <<"InternetService", "PaymentMethod">>, TRUE)

\* 1 if 'col' in df.columns and df[col].iloc[0] == 1 else 0
HasFlag(df, col) ==
    IF col \in Range(df.cols) /\ Eq(df.val[col], 1) THEN 1 ELSE 0

RECURSIVE SumColumns(_, _)
SumColumns(df, columns) ==
    IF columns = <<>> THEN 0
    ELSE Add(df.val[Head(columns)], SumColumns(df, Tail(columns)))

\* TenureChargeFeatures with IsEstablished lacking its lower bound
TenureChargeFeatures_NoLowerBound(df) ==
    LET tenure  == df.val["tenure"]
        monthly == df.val["MonthlyCharges"]
        total   == df.val["TotalCharges"]
    IN  AssignAll(df,
          <<"IsNewCustomer", "IsEstablished", "IsLoyalCustomer",
            "ChargePerTenureMonth", "IsHighSpender", "ChargeTenureRatio">>,
          [IsNewCustomer |-> AsInt(Leq(tenure, 12)),
           IsEstablished |-> AsInt(Leq(tenure, 24)),
           IsLoyalCustomer |-> AsInt(Gt(tenure, 48)),
           ChargePerTenureMonth |-> Div(total, tenure + 1),
           IsHighSpender |-> AsInt(Gt(monthly, 70)),
           ChargeTenureRatio |-> Div(monthly, tenure + 1)])

\* 5. feature engineering: tenure-based and charge-based features
TenureChargeFeatures(df) ==
    LET tenure  == df.val["tenure"]
        monthly == df.val["MonthlyCharges"]
        total   == df.val["TotalCharges"]
    IN  AssignAll(df,
          <<"IsNewCustomer", "IsEstablished", "IsLoyalCustomer",
            "ChargePerTenureMonth", "IsHighSpender", "ChargeTenureRatio">>,
          [IsNewCustomer |-> AsInt(Leq(tenure, 12)),
           IsEstablished |-> AsInt(Gt(tenure, 12) /\ Leq(tenure, 24)),
           IsLoyalCustomer |-> AsInt(Gt(tenure, 48)),
           ChargePerTenureMonth |-> Div(total, tenure + 1),
           IsHighSpender |-> AsInt(Gt(monthly, 70)),
           ChargeTenureRatio |-> Div(monthly, tenure + 1)])

\* 5. feature engineering: service bundle features
ServiceFeatures(df) ==
    LET has_internet_no == HasFlag(df, "InternetService_No")
        total == Add(df.val["PhoneService"],
                     Add(1 - has_internet_no, SumColumns(df, InternetAddOns)))
    IN  AssignAll(df,
          <<"TotalServices", "ServiceDensity", "HasMinimalServices">>,
          [TotalServices |-> total,
           ServiceDensity |-> Div(total, df.val["tenure"] + 1),
           HasMinimalServices |-> AsInt(Leq(total, 2))])

\* 5. feature engineering: risk profiles, payment and internet features
ProfileFeatures(df) ==
    LET has_fiber  == HasFlag(df, "InternetService_Fiber optic")
        has_echeck == HasFlag(df, "PaymentMethod_Electronic check")
        has_bank   == HasFlag(df, "PaymentMethod_Bank transfer (automatic)")
        has_cc     == HasFlag(df, "PaymentMethod_Credit card (automatic)")
    IN  AssignAll(df,
          <<"HighRiskProfile", "SeniorNoSupport", "SingleNoFamily",
            "NewHighSpender", "PaperlessElectronicCheck", "HasAutoPay",
            "FiberNoAddons">>,
          [HighRiskProfile |->
               AsInt(Eq(df.val["Contract"], 0) /\ has_fiber = 1
                     /\ has_echeck = 1),
           SeniorNoSupport |->
               AsInt(Eq(df.val["SeniorCitizen"], 1)
                     /\ Eq(df.val["TechSupport"], 0)),
           SingleNoFamily |->
               AsInt(Eq(df.val["Partner"], 0) /\ Eq(df.val["Dependents"], 0)),
           NewHighSpender |->
               AsInt(Leq(df.val["tenure"], 12)
                     /\ Gt(df.val["MonthlyCharges"], 70)),
           PaperlessElectronicCheck |->
               AsInt(Eq(df.val["PaperlessBilling"], 1) /\ has_echeck = 1),
           HasAutoPay |-> AsInt(has_bank = 1 \/ has_cc = 1),
           FiberNoAddons |->
               AsInt(has_fiber = 1 /\ Eq(df.val["OnlineSecurity"], 0)
                     /\ Eq(df.val["TechSupport"], 0))])

FeatureEngineering(df) ==
    ProfileFeatures(ServiceFeatures(TenureChargeFeatures(df)))

cols_to_scale == <<"tenure", "MonthlyCharges", "TotalCharges">>

\* scaler.transform on column i of cols_to_scale: x * scale_[i] + min_[i]
ScalerTransform(sc, i, x) == x * sc.scale_[i] + sc.min_[i]

\* 6. scaling of the three numeric columns, in place
Scaling(df, sc) ==
    [cols |-> df.cols,
     val  |-> [c \in DOMAIN df.val |->
                 IF \E i \in DOMAIN cols_to_scale : cols_to_scale[i] = c
                 THEN ScalerTransform(sc,
                        CHOOSE i \in DOMAIN cols_to_scale : cols_to_scale[i] = c,
                        df.val[c])
                 ELSE df.val[c]]]

expected_columns ==
    <<"gender", "SeniorCitizen", "Partner", "Dependents", "tenure",
      "PhoneService", "MultipleLines", "OnlineSecurity", "OnlineBackup",
      "DeviceProtection", "TechSupport", "StreamingTV", "StreamingMovies",
      "Contract", "PaperlessBilling", "MonthlyCharges", "TotalCharges",
      "IsNewCustomer", "IsEstablished", "IsLoyalCustomer",
      "ChargePerTenureMonth", "IsHighSpender", "ChargeTenureRatio",
      "TotalServices", "ServiceDensity", "HasMinimalServices",
      "HighRiskProfile", "SeniorNoSupport", "SingleNoFamily",
      "NewHighSpender", "PaperlessElectronicCheck", "HasAutoPay",
      "FiberNoAddons", "InternetService_Fiber optic", "InternetService_No",
      "PaymentMethod_Credit card (automatic)",
      "PaymentMethod_Electronic check", "PaymentMethod_Mailed check">>

\* for col in columns: if col not in df.columns: df[col] = 0
AddMissing(df, columns) ==
    LET missing(c) == c \notin Range(df.cols)
    IN  [cols |-> df.cols \o SelectSeq(columns, missing),
         val  |-> [c \in DOMAIN df.val \cup Range(columns) |->
                     IF c \in DOMAIN df.val THEN df.val[c] ELSE 0]]

\* df[columns]: the listed columns, in the listed order
Reorder(df, columns) ==
    [cols |-> columns, val |-> [c \in Range(columns) |-> df.val[c]]]

\* ColumnOrder without the final reordering
ColumnOrder_NoReorder(df) == AddMissing(df, expected_columns)

\* 7. missing columns are added with 0, columns are put in the training order
ColumnOrder(df) == Reorder(AddMissing(df, expected_columns), expected_columns)

\* preprocess_input with the scaler applied before the feature engineering
preprocess_input_ScaleFirst(df, sc) ==
    ColumnOrder(
      FeatureEngineering(
        Scaling(
          OneHotEncoding(
            OrdinalEncoding(
              NoServiceCategories(
                BinaryEncoding(df)))),
          sc)))

preprocess_input(df, sc) ==
    ColumnOrder(
      Scaling(
        FeatureEngineering(
          OneHotEncoding(
            OrdinalEncoding(
              NoServiceCategories(
                BinaryEncoding(df))))),
        sc))

-----------------------------------------------------------------------------
(* app.py: artifacts and load_models *)

\* the fitted scalers a scaler.pkl may hold: per column of cols_to_scale,
\* x -> x * scale_ + min_
Scalers == {[scale_ |-> <<1, 1, 1>>, min_ |-> <<-32, -65, -2280>>],
            [scale_ |-> <<2, 3, 1>>, min_ |-> <<0, -18, 5>>]}

\* load_models' None for the scaler and for the threshold
NoScaler == [scale_ |-> <<>>, min_ |-> <<>>]

NoThreshold == -1

\* the thresholds a threshold.pkl may hold, as multiples of 1 / ProbScale
Thresholds == 0..ProbScale

\* the probabilities predict_proba may return, as multiples of 1 / ProbScale
Probabilities == 0..ProbScale

\* what the three pickle files hold; None, NoScaler, NoThreshold for a file
\* that is missing or cannot be unpickled
Artifacts == [churn_model : {"churn_model", None},
              scaler : Scalers \cup {NoScaler},
              threshold : Thresholds \cup {NoThreshold}]

LoadFailure == [model |-> None, scaler |-> NoScaler,
                threshold |-> NoThreshold, models_loaded |-> FALSE]

\* load_models(): the three loads in a try block; any exception gives the
\* all-None result
load_models(f) ==
    IF f.churn_model # None /\ f.scaler # NoScaler /\ f.threshold # NoThreshold
    THEN [model |-> f.churn_model, scaler |-> f.scaler,
          threshold |-> f.threshold, models_loaded |-> TRUE]
    ELSE LoadFailure

NoFrame == [cols |-> <<>>, val |-> <<>>]

NoCache == [set |-> FALSE, value |-> LoadFailure]

-----------------------------------------------------------------------------
(* app.py: the form and the record it builds *)

MaxTenure == 72

ContractOptions == {"Month-to-month", "One year", "Two year"}

InternetOptions == {"Fiber optic", "DSL", "No"}

PaymentOptions == {"Electronic check", "Mailed check",
                   "Bank transfer (automatic)", "Credit card (automatic)"}

YesNoOptions == {"Yes", "No"}

input_columns ==
    <<"Contract", "InternetService", "tenure", "MonthlyCharges",
      "TotalCharges", "PaymentMethod", "PaperlessBilling", "OnlineSecurity",
      "TechSupport", "gender", "SeniorCitizen", "Partner", "Dependents",
      "PhoneService", "MultipleLines", "OnlineBackup", "DeviceProtection",
      "StreamingTV", "StreamingMovies">>

\* input_dict of the prediction block, as a one-row frame
InputFrame(contract, internet_service, tenure, monthly_charges, payment_method, paperless_billing, online_security, tech_support) ==
    LET total_charges == tenure * monthly_charges
        d == [Contract |-> contract, InternetService |-> internet_service,
              tenure |-> tenure, MonthlyCharges |-> monthly_charges,
              TotalCharges |-> total_charges,
              PaymentMethod |-> payment_method,
              PaperlessBilling |-> paperless_billing,
              OnlineSecurity |-> IF internet_service # "No"
                                 THEN online_security
                                 ELSE "No internet service",
              TechSupport |-> IF internet_service # "No"
                              THEN tech_support
                              ELSE "No internet service",
              gender |-> "Female", SeniorCitizen |-> 0, Partner |-> "No",
              Dependents |-> "No", PhoneService |-> "Yes",
              MultipleLines |-> "No", OnlineBackup |-> "No",
              DeviceProtection |-> "No", StreamingTV |-> "No",
              StreamingMovies |-> "No"]
    IN  [cols |-> input_columns, val |-> d]

\* the tenures and monthly charges entered in the form
FormTenures == {0, 12, 13, MaxTenure}

FormCharges == {70}

-----------------------------------------------------------------------------
(* app.py: the prediction block *)

\* the columns of the output that hold a quotient
RatioColumns == {"ChargePerTenureMonth", "ChargeTenureRatio", "ServiceDensity"}

\* the value of column c is NaN (the scaled columns come from numeric input)
IsNaNAt(df, c) ==
    IF c \in RatioColumns THEN df.val[c][1] = NaN
    ELSE IF c \in Range(cols_to_scale) THEN FALSE
    ELSE df.val[c] = NaN

HasNaN(df) == \E c \in Range(df.cols) : IsNaNAt(df, c)

\* will_churn = 1 if churn_probability >= threshold else 0
WillChurn(p, t) == IF p >= t THEN 1 ELSE 0

\* risk_level = "HIGH" if will_churn else "LOW"
RiskLevel(w) == IF w = 1 THEN "HIGH" ELSE "LOW"

\* RiskClass with strict comparisons
RiskClass_Strict(p) ==
    IF 10 * p > 7 * ProbScale THEN "risk-high"
    ELSE IF 10 * p > 4 * ProbScale THEN "risk-medium"
    ELSE "risk-low"

\* the risk assessment: >= 0.7, >= 0.4, else
RiskClass(p) ==
    IF 10 * p >= 7 * ProbScale THEN "risk-high"
    ELSE IF 10 * p >= 4 * ProbScale THEN "risk-medium"
    ELSE "risk-low"

-----------------------------------------------------------------------------
(* The script run *)

RunLocals == <<error_shown, form_built, input_df, processed_df,
               preprocess_calls, predict_calls, churn_probability,
               will_churn, risk_level, risk_class>>

RunStart ==
    /\ pc = "start"
    /\ error_shown = FALSE
    /\ form_built = FALSE
    /\ input_df = NoFrame
    /\ processed_df = NoFrame
    /\ preprocess_calls = 0
    /\ predict_calls = 0
    /\ churn_probability = 0
    /\ will_churn = 0
    /\ risk_level = None
    /\ risk_class = None

Init ==
    /\ files \in Artifacts
    /\ cache = NoCache
    /\ model = None
    /\ scaler = NoScaler
    /\ threshold = NoThreshold
    /\ models_loaded = FALSE
    /\ runs = 1
    /\ RunStart

\* model, scaler, threshold, models_loaded = load_models(), through
\* st.cache_resource: the function body runs once per session
LoadModels ==
    /\ pc = "start"
    /\ LET r == IF cache.set THEN cache.value ELSE load_models(files)
       IN  /\ cache' = [set |-> TRUE, value |-> r]
           /\ model' = r.model
           /\ scaler' = r.scaler
           /\ threshold' = r.threshold
           /\ models_loaded' = r.models_loaded
    /\ pc' = "loaded"
    /\ UNCHANGED <<files, runs>>
    /\ UNCHANGED RunLocals

\* CheckModels without st.stop(): the error is shown and the script goes on
CheckModels_NoStop ==
    /\ pc = "loaded"
    /\ error_shown' = (~models_loaded)
    /\ form_built' = TRUE
    /\ pc' = "form"
    /\ UNCHANGED <<files, cache, model, scaler, threshold, models_loaded,
                   input_df, processed_df, preprocess_calls, predict_calls,
                   churn_probability, will_churn, risk_level, risk_class, runs>>

\* if not models_loaded: st.error(...); st.stop() -- else the form is built
CheckModels ==
    /\ pc = "loaded"
    /\ IF ~models_loaded
       THEN /\ error_shown' = TRUE
            /\ pc' = "stopped"
            /\ UNCHANGED form_built
       ELSE /\ form_built' = TRUE
            /\ pc' = "form"
            /\ UNCHANGED error_shown
    /\ UNCHANGED <<files, cache, model, scaler, threshold, models_loaded,
                   input_df, processed_df, preprocess_calls, predict_calls,
                   churn_probability, will_churn, risk_level, risk_class, runs>>

\* the form is submitted with a tenure and a monthly charge from the given
\* sets: the prediction block builds input_df
SubmitWith(tenures, charges) ==
    /\ pc = "form"
    /\ \E contract \in ContractOptions, internet_service \in InternetOptions,
          tenure \in tenures, monthly_charges \in charges,
          payment_method \in PaymentOptions,
          paperless_billing \in YesNoOptions,
          online_security \in YesNoOptions, tech_support \in YesNoOptions :
            input_df' = InputFrame(contract, internet_service, tenure,
                                   monthly_charges, payment_method,
                                   paperless_billing, online_security,
                                   tech_support)
    /\ pc' = "submitted"
    /\ UNCHANGED <<files, cache, model, scaler, threshold, models_loaded,
                   error_shown, form_built, processed_df, preprocess_calls,
                   predict_calls, churn_probability, will_churn, risk_level,
                   risk_class, runs>>

\* the form is submitted: the prediction block builds input_df
Submit == SubmitWith(FormTenures, FormCharges)

\* the form is submitted with any tenure the number input allows
SubmitAnyTenure == SubmitWith(0..MaxTenure, FormCharges)

\* the script is run without a submission: nothing after the form happens
NoSubmit ==
    /\ pc = "form"
    /\ pc' = "done"
    /\ UNCHANGED <<files, cache, model, scaler, threshold, models_loaded, runs>>
    /\ UNCHANGED RunLocals

\* processed_df = preprocess_input(input_df, scaler); without a scaler the
\* call of scaler.transform raises and the except clause reports it
Preprocess ==
    /\ pc = "submitted"
    /\ preprocess_calls' = preprocess_calls + 1
    /\ IF scaler = NoScaler
       THEN /\ error_shown' = TRUE
            /\ pc' = "done"
            /\ UNCHANGED processed_df
       ELSE /\ processed_df' = preprocess_input(input_df, scaler)
            /\ pc' = "processed"
            /\ UNCHANGED error_shown
    /\ UNCHANGED <<files, cache, model, scaler, threshold, models_loaded,
                   form_built, input_df, predict_calls, churn_probability,
                   will_churn, risk_level, risk_class, runs>>

\* churn_probability = model.predict_proba(processed_df)[0][1], the decision
\* and the risk assessment; the classifier is opaque: it returns any
\* probability, and may reject a frame that holds NaN
Predict ==
    /\ pc = "processed"
    /\ predict_calls' = predict_calls + 1
    /\ \E p \in Probabilities,
          rejects \in IF HasNaN(processed_df) THEN BOOLEAN ELSE {FALSE} :
            IF model = None \/ rejects
            THEN /\ error_shown' = TRUE
                 /\ UNCHANGED <<churn_probability, will_churn, risk_level,
                                risk_class>>
            ELSE /\ churn_probability' = p
                 /\ will_churn' = WillChurn(p, threshold)
                 /\ risk_level' = RiskLevel(WillChurn(p, threshold))
                 /\ risk_class' = RiskClass(p)
                 /\ UNCHANGED error_shown
    /\ pc' = "done"
    /\ UNCHANGED <<files, cache, model, scaler, threshold, models_loaded,
                   form_built, input_df, processed_df, preprocess_calls, runs>>

\* any interaction reruns the script from the top, with fresh script
\* variables; the cache survives
Rerun ==
    /\ pc \in {"done", "stopped"}
    /\ runs < MaxRuns
    /\ runs' = runs + 1
    /\ pc' = "start"
    /\ error_shown' = FALSE
    /\ form_built' = FALSE
    /\ input_df' = NoFrame
    /\ processed_df' = NoFrame
    /\ preprocess_calls' = 0
    /\ predict_calls' = 0
    /\ churn_probability' = 0
    /\ will_churn' = 0
    /\ risk_level' = None
    /\ risk_class' = None
    /\ model' = None
    /\ scaler' = NoScaler
    /\ threshold' = NoThreshold
    /\ models_loaded' = FALSE
    /\ UNCHANGED <<files, cache>>

Next ==
    \/ LoadModels
    \/ CheckModels
    \/ Submit
    \/ NoSubmit
    \/ Preprocess
    \/ Predict
    \/ Rerun

Spec == Init /\ [][Next]_vars

-----------------------------------------------------------------------------
(* preprocess_input on any single-row record: the caller has the artifacts *)
(* loaded and hands over a record drawn from the sets below                *)

\* the record of the form left at its defaults
DefaultVal ==
    InputFrame("Month-to-month", "Fiber optic", 12, 70, "Electronic check",
               "Yes", "No", "No").val

UnknownValue == "Unknown"

Charges == {70, 71}

Totals == {0, 840}

ServiceOptions == {"Yes", "No", "No internet service"}

\* every Contract, InternetService, PaymentMethod, tenure, charges
CoreRecords ==
    {[DefaultVal EXCEPT !.Contract = c, !.InternetService = i,
                        !.PaymentMethod = pm, !.tenure = t,
                        !.MonthlyCharges = m, !.TotalCharges = tc] :
        c \in ContractOptions, i \in InternetOptions, pm \in PaymentOptions,
        t \in 0..MaxTenure, m \in Charges, tc \in Totals}

\* every combination of the eight service slots
ServiceRecords ==
    {[DefaultVal EXCEPT !.InternetService = i, !.PhoneService = ph,
                        !.OnlineSecurity = a1, !.OnlineBackup = a2,
                        !.DeviceProtection = a3, !.TechSupport = a4,
                        !.StreamingTV = a5, !.StreamingMovies = a6] :
        i \in InternetOptions, ph \in YesNoOptions,
        a1 \in ServiceOptions, a2 \in ServiceOptions, a3 \in ServiceOptions,
        a4 \in ServiceOptions, a5 \in ServiceOptions, a6 \in ServiceOptions}

\* every combination of the customer fields
CustomerRecords ==
    {[DefaultVal EXCEPT !.gender = g, !.SeniorCitizen = sc, !.Partner = pa,
                        !.Dependents = de, !.PaperlessBilling = pb,
                        !.MultipleLines = ml, !.PaymentMethod = pm] :
        g \in {"Female", "Male"}, sc \in {0, 1}, pa \in YesNoOptions,
        de \in YesNoOptions, pb \in YesNoOptions,
        ml \in {"Yes", "No", "No phone service"}, pm \in PaymentOptions}

MappedFields ==
    {"gender", "Partner", "Dependents", "PhoneService", "PaperlessBilling",
     "MultipleLines", "Contract"} \cup Range(InternetAddOns)

\* one mapped field holds a value outside its enumeration
UnknownRecords ==
    {[[DefaultVal EXCEPT ![f] = UnknownValue] EXCEPT !.InternetService = i] :
        f \in MappedFields, i \in InternetOptions}

RawRecords == CoreRecords \cup ServiceRecords \cup CustomerRecords
              \cup UnknownRecords

InitPre ==
    /\ files \in {a \in Artifacts : /\ load_models(a).models_loaded
                                    /\ a.threshold = ProbScale \div 2}
    /\ cache = [set |-> TRUE, value |-> load_models(files)]
    /\ model = files.churn_model
    /\ scaler = files.scaler
    /\ threshold = files.threshold
    /\ models_loaded = TRUE
    /\ runs = 1
    /\ pc = "submitted"
    /\ error_shown = FALSE
    /\ form_built = TRUE
    /\ input_df \in {[cols |-> input_columns, val |-> v] : v \in RawRecords}
    /\ processed_df = NoFrame
    /\ preprocess_calls = 0
    /\ predict_calls = 0
    /\ churn_probability = 0
    /\ will_churn = 0
    /\ risk_level = None
    /\ risk_class = None

NextPre ==
    \/ Preprocess
    \/ Predict

SpecPre == InitPre /\ [][NextPre]_vars

-----------------------------------------------------------------------------
(* Properties *)

In == input_df.val

Out == processed_df.val

\* preprocess_input has returned a frame
Returned == Len(processed_df.cols) > 0

\* every categorical field of the record is in its documented enumeration
ValidRecord ==
    /\ In.Contract \in {"Month-to-month", "One year", "Two year"}
    /\ In.InternetService \in {"Fiber optic", "DSL", "No"}
    /\ In.PaymentMethod \in {"Electronic check", "Mailed check",
                             "Bank transfer (automatic)",
                             "Credit card (automatic)"}
    /\ In.gender \in {"Female", "Male"}
    /\ \A f \in {"Partner", "Dependents", "PhoneService", "PaperlessBilling"} :
          In[f] \in {"Yes", "No"}
    /\ In.MultipleLines \in {"Yes", "No", "No phone service"}
    /\ \A f \in Range(InternetAddOns) :
          In[f] \in {"Yes", "No", "No internet service"}

\* the 38 columns of the documented feature schema, in order
DocumentedSchema ==
    <<"gender", "SeniorCitizen", "Partner", "Dependents", "tenure",
      "PhoneService", "MultipleLines", "OnlineSecurity", "OnlineBackup",
      "DeviceProtection", "TechSupport", "StreamingTV", "StreamingMovies",
      "Contract", "PaperlessBilling", "MonthlyCharges", "TotalCharges",
      "IsNewCustomer", "IsEstablished", "IsLoyalCustomer",
      "ChargePerTenureMonth", "IsHighSpender", "ChargeTenureRatio",
      "TotalServices", "ServiceDensity", "HasMinimalServices",
      "HighRiskProfile", "SeniorNoSupport", "SingleNoFamily",
      "NewHighSpender", "PaperlessElectronicCheck", "HasAutoPay",
      "FiberNoAddons", "InternetService_Fiber optic", "InternetService_No",
      "PaymentMethod_Credit card (automatic)",
      "PaymentMethod_Electronic check", "PaymentMethod_Mailed check">>

\* C1: for every record whose categorical fields are in their enumerations,
\* the frame preprocess_input returns has exactly the 38 documented columns,
\* in the documented order, none extra and none missing.
C1_SchemaExact ==
    (Returned /\ ValidRecord) =>
        /\ Len(processed_df.cols) = 38
        /\ processed_df.cols = DocumentedSchema
        /\ DOMAIN Out = Range(DocumentedSchema)

C1_Witness ==
    /\ Returned /\ ValidRecord
    /\ In.Contract = "Two year"
    /\ In.InternetService = "No"
    /\ In.PaymentMethod = "Mailed check"

\* C2: each of the five one-hot output columns is 1 exactly when the
\* record's InternetService / PaymentMethod is that column's category, and 0
\* otherwise.
C2_OneHotIndicators ==
    (Returned /\ ValidRecord) =>
        /\ Out["InternetService_Fiber optic"]
             = AsInt(In.InternetService = "Fiber optic")
        /\ Out["InternetService_No"] = AsInt(In.InternetService = "No")
        /\ Out["PaymentMethod_Credit card (automatic)"]
             = AsInt(In.PaymentMethod = "Credit card (automatic)")
        /\ Out["PaymentMethod_Electronic check"]
             = AsInt(In.PaymentMethod = "Electronic check")
        /\ Out["PaymentMethod_Mailed check"]
             = AsInt(In.PaymentMethod = "Mailed check")

\* C3: when a categorical field holds a value outside its enumeration,
\* preprocess_input raises: the call returns no frame, the error is reported
\* and the classifier is not called.
C3_UnknownCategoryRaises ==
    (preprocess_calls > 0 /\ ~ValidRecord) =>
        /\ ~Returned
        /\ error_shown
        /\ predict_calls = 0

\* C4: HighRiskProfile is 1 exactly when Contract is Month-to-month and
\* InternetService is Fiber optic and PaymentMethod is Electronic check.
C4_HighRiskConjunction ==
    (Returned /\ ValidRecord) =>
        (Out.HighRiskProfile = 1 <=>
            /\ In.Contract = "Month-to-month"
            /\ In.InternetService = "Fiber optic"
            /\ In.PaymentMethod = "Electronic check")

\* the number of the 8 service slots that are on, from the raw record
ServiceCount ==
    AsInt(In.PhoneService = "Yes") + AsInt(In.InternetService # "No")
    + AsInt(In.OnlineSecurity = "Yes") + AsInt(In.OnlineBackup = "Yes")
    + AsInt(In.DeviceProtection = "Yes") + AsInt(In.TechSupport = "Yes")
    + AsInt(In.StreamingTV = "Yes") + AsInt(In.StreamingMovies = "Yes")

\* C5: TotalServices is the number of the 8 service slots equal to 1, the
\* internet slot being 1 exactly when InternetService is not "No".
C5_TotalServicesCount ==
    (Returned /\ ValidRecord) => Out.TotalServices = ServiceCount

\* C6: HasAutoPay is 1 exactly when PaymentMethod is one of the two
\* automatic methods.
C6_HasAutoPay ==
    (Returned /\ ValidRecord) =>
        (Out.HasAutoPay = 1 <=>
            In.PaymentMethod \in {"Bank transfer (automatic)",
                                  "Credit card (automatic)"})

\* the quotient q, kept as a pair, is a / b
IsQuotient(q, a, b) == q[2] # 0 /\ b # 0 /\ q[1] * b = a * q[2]

\* the index in cols_to_scale of a scaled column
ScaledIndex(c) == CHOOSE i \in DOMAIN cols_to_scale : cols_to_scale[i] = c

\* C7: the features derived from tenure, MonthlyCharges and TotalCharges have
\* the values computed from the caller's raw inputs, whatever the scaler;
\* the three columns tenure, MonthlyCharges, TotalCharges of the output hold
\* the scaler's transform of the raw inputs, and no other column of the
\* returned frame changes when the scaler does.
C7_DerivedFromRaw ==
    (Returned /\ ValidRecord) =>
        /\ Out.IsNewCustomer = AsInt(In.tenure <= 12)
        /\ Out.IsEstablished = AsInt(In.tenure > 12 /\ In.tenure <= 24)
        /\ Out.IsLoyalCustomer = AsInt(In.tenure > 48)
        /\ IsQuotient(Out.ChargePerTenureMonth, In.TotalCharges, In.tenure + 1)
        /\ IsQuotient(Out.ChargeTenureRatio, In.MonthlyCharges, In.tenure + 1)
        /\ Out.IsHighSpender = AsInt(In.MonthlyCharges > 70)
        /\ IsQuotient(Out.ServiceDensity, Out.TotalServices, In.tenure + 1)
        /\ Out.NewHighSpender
             = AsInt(In.tenure <= 12 /\ In.MonthlyCharges > 70)
        /\ \A c \in Range(cols_to_scale) :
              Out[c] = In[c] * scaler.scale_[ScaledIndex(c)]
                       + scaler.min_[ScaledIndex(c)]
        /\ pc = "processed" =>
              \A sc \in Scalers :
                  LET other == preprocess_input(input_df, sc).val
                  IN  \A c \in Range(DocumentedSchema) \ Range(cols_to_scale) :
                          other[c] = Out[c]

\* a record whose derived features differ between the raw inputs and the
\* scaled ones: tenure 12, 71 a month, and the centring scaler
C7_Witness ==
    /\ Returned /\ ValidRecord
    /\ In.tenure = 12 /\ In.MonthlyCharges = 71 /\ In.TotalCharges = 840
    /\ scaler.min_[1] = -32
    /\ Out.tenure = -20
    /\ Out.NewHighSpender = 1

\* the decision and the risk assessment of this run have been made
Scored == pc = "done" /\ predict_calls = 1 /\ ~error_shown

\* C8: the binary decision is 1 exactly when p >= t; the risk tier is low
\* when p < 0.4, medium when 0.4 <= p < 0.7, high when p >= 0.7, whatever
\* the threshold and the decision.
C8_DecisionAndTier ==
    Scored =>
        /\ will_churn \in {0, 1}
        /\ will_churn = 1 <=> churn_probability >= threshold
        /\ 10 * churn_probability < 4 * ProbScale => risk_class = "risk-low"
        /\ (/\ 10 * churn_probability >= 4 * ProbScale
            /\ 10 * churn_probability < 7 * ProbScale)
              => risk_class = "risk-medium"
        /\ 10 * churn_probability >= 7 * ProbScale => risk_class = "risk-high"

\* the decision is 1 while the tier is low
C8_Witness ==
    /\ Scored
    /\ will_churn = 1
    /\ risk_class = "risk-low"

\* one of the three artifacts cannot be loaded
LoadFails ==
    \/ files.churn_model = None
    \/ files.scaler = NoScaler
    \/ files.threshold = NoThreshold

\* C9: when the load of any of the three artifacts fails, the failure is
\* reported and the script stops before the form is built: the form is never
\* built and neither preprocess_input nor the classifier is ever called.
C9_LoadFailureStops ==
    LoadFails =>
        /\ ~models_loaded
        /\ ~form_built
        /\ preprocess_calls = 0
        /\ predict_calls = 0
        /\ pc \in {"start", "loaded", "stopped"}
        /\ pc = "stopped" => error_shown

\* the scaler alone is missing, and a rerun has stopped again
C9_Witness ==
    /\ files.churn_model # None
    /\ files.scaler = NoScaler
    /\ files.threshold # NoThreshold
    /\ runs = MaxRuns
    /\ pc = "stopped"
    /\ error_shown

\* C10: at most one of IsNewCustomer, IsEstablished, IsLoyalCustomer is 1:
\* tenure in [0,12] gives (1,0,0), (12,24] gives (0,1,0), (24,48] gives
\* (0,0,0), above 48 gives (0,0,1).
C10_TenureBuckets ==
    (Returned /\ ValidRecord /\ In.tenure \in 0..MaxTenure) =>
        LET flags == <<Out.IsNewCustomer, Out.IsEstablished,
                       Out.IsLoyalCustomer>>
        IN  /\ flags[1] + flags[2] + flags[3] <= 1
            /\ In.tenure <= 12 => flags = <<1, 0, 0>>
            /\ (In.tenure > 12 /\ In.tenure <= 24) => flags = <<0, 1, 0>>
            /\ (In.tenure > 24 /\ In.tenure <= 48) => flags = <<0, 0, 0>>
            /\ In.tenure > 48 => flags = <<0, 0, 1>>

\* a tenure in the gap (24,48] has been processed
C10_Witness ==
    /\ Returned /\ ValidRecord
    /\ In.tenure = 36
    /\ Out.IsNewCustomer + Out.IsEstablished + Out.IsLoyalCustomer = 0

-----------------------------------------------------------------------------
(* The script with every tenure of the form: the artifacts are on disk, the *)
(* session makes one run                                                    *)

InitForm ==
    /\ files \in {a \in Artifacts : /\ load_models(a).models_loaded
                                    /\ a.threshold = ProbScale \div 2}
    /\ cache = NoCache
    /\ model = None
    /\ scaler = NoScaler
    /\ threshold = NoThreshold
    /\ models_loaded = FALSE
    /\ runs = 1
    /\ RunStart

NextForm ==
    \/ LoadModels
    \/ CheckModels
    \/ SubmitAnyTenure
    \/ Preprocess
    \/ Predict

SpecForm == InitForm /\ [][NextForm]_vars

\* the fields the form does not ask for keep the app's fixed values
FixedDefaults ==
    /\ In.gender = "Female" /\ In.SeniorCitizen = 0
    /\ In.Partner = "No" /\ In.Dependents = "No"
    /\ In.PhoneService = "Yes" /\ In.MultipleLines = "No"
    /\ In.OnlineBackup = "No" /\ In.DeviceProtection = "No"
    /\ In.StreamingTV = "No" /\ In.StreamingMovies = "No"

\* column c of the returned frame holds a defined number: a scaled column
\* holds the scaler's transform of the raw number, a quotient has a defined
\* numerator and a positive denominator, any other column is not NaN
DefinedAt(c) ==
    IF c \in Range(cols_to_scale)
    THEN Out[c] = In[c] * scaler.scale_[ScaledIndex(c)]
                  + scaler.min_[ScaledIndex(c)]
    ELSE IF c \in {"ChargePerTenureMonth", "ChargeTenureRatio",
                   "ServiceDensity"}
    THEN Out[c][1] >= 0 /\ Out[c][2] > 0
    ELSE Out[c] \in 0..8

\* C11: every record the form can produce encodes without an undefined
\* value: with InternetService "No" the record holds the "No internet
\* service" sentinel for OnlineSecurity and TechSupport and both come out
\* 0, and each of the 38 fields of the frame handed to the classifier is a
\* defined number.
C11_FormEncodesDefined ==
    /\ pc \in {"submitted", "processed", "done"} =>
          /\ FixedDefaults
          /\ In.tenure \in 0..72
          /\ In.TotalCharges = In.tenure * In.MonthlyCharges
          /\ In.InternetService = "No" =>
                /\ In.OnlineSecurity = "No internet service"
                /\ In.TechSupport = "No internet service"
          /\ In.InternetService # "No" =>
                /\ In.OnlineSecurity \in {"Yes", "No"}
                /\ In.TechSupport \in {"Yes", "No"}
    /\ preprocess_calls > 0 =>
          /\ Returned
          /\ ~error_shown
          /\ Len(processed_df.cols) = 38
          /\ \A c \in Range(processed_df.cols) : DefinedAt(c)
          /\ Out.OnlineSecurity = AsInt(In.OnlineSecurity = "Yes")
          /\ Out.TechSupport = AsInt(In.TechSupport = "Yes")
          /\ In.InternetService = "No" =>
                Out.OnlineSecurity = 0 /\ Out.TechSupport = 0

\* a record without internet service, at the longest tenure, has been handed
\* to the classifier
C11_Witness ==
    /\ predict_calls = 1
    /\ In.InternetService = "No"
    /\ In.OnlineSecurity = "No internet service"
    /\ In.tenure = 72
    /\ Out.OnlineSecurity = 0
    /\ Out.TechSupport = 0

====
